---- MODULE Spec2Model ----
(***************************************************************************)
(* A model of MovieDataAnalyzer (src/movie_data_analysis.py): the loaded   *)
(* movie and character tables and the aggregation calls made on them.      *)
(*                                                                         *)
(* Strings that the code takes apart (the movie_genres column) are         *)
(* sequences of one-character strings.  A Python value whose runtime type  *)
(* matters is a record [tag, val]; a missing table cell (pandas NaN) has   *)
(* tag "nan".  Heights are whole centimetres (1.8 m is 180, 3 m is 300).  *)
(*                                                                         *)
(* files is the listing of the data directory: a sequence of files, each   *)
(* a name and its rows.  The cells of a date column are the text of the    *)
(* file (a missing cell for an empty field); the other columns are held as *)
(* read_csv types them.  The tables are the rows after the loader has read *)
(* the date columns and applied parse_date to them.  A specification keeps *)
(* the columns its calls read; where none of them is a date the tables are *)
(* the rows of the files.  A date is a (year, month, day) triple, a        *)
(* missing date has tag "nat".                                             *)
(***************************************************************************)
EXTENDS Integers, Sequences, FiniteSets, TLC

VARIABLES files, movie_metadata, characters, name_clusters, plot_summaries,
          tvtropes_clusters, diagnostics, request, response

vars == <<files, movie_metadata, characters, name_clusters, plot_summaries,
          tvtropes_clusters, diagnostics, request, response>>

\* The directory, the three tables no call reads and the lines the loader
\* has printed about files it does not know.
rest == <<files, name_clusters, plot_summaries, tvtropes_clusters, diagnostics>>

(***************************************************************************)
(* Bounds of the model.                                                    *)
(***************************************************************************)
MaxMovies == 3
MaxChars == 3
MaxN == 4

(***************************************************************************)
(* Python values.                                                          *)
(***************************************************************************)
PyInt(v) == [tag |-> "int", val |-> v]
PyFloat(v) == [tag |-> "float", val |-> v]
PyBool(v) == [tag |-> "bool", val |-> v]
PyStr(s) == [tag |-> "str", val |-> s]
PyNone == [tag |-> "none", val |-> 0]
NaN == [tag |-> "nan", val |-> 0]
\* pd.Timestamp of a calendar day, and pd.NaT.
Timestamp(y, m, d) == [tag |-> "date", val |-> <<y, m, d>>]
NaT == [tag |-> "nat", val |-> 0]

\* isinstance(x, int): bool is a subclass of int.
IsInstanceInt(x) == x.tag \in {"int", "bool"}
\* isinstance(x, (int, float)): NaN is a float.
IsInstanceNumeric(x) == x.tag \in {"int", "bool", "float", "nan"}
IsInstanceStr(x) == x.tag = "str"

\* pd.isnull / the cells dropna and value_counts leave out.
IsNull(x) == x.tag \in {"nan", "none", "nat"}

(***************************************************************************)
(* String operations, as Python and pandas' .str accessor compute them.    *)
(***************************************************************************)
RECURSIVE Split(_, _)
\* str.split(sep) for a one-character separator: empty pieces are kept.
Split(s, sep) ==
    IF \A i \in 1..Len(s) : s[i] # sep
    THEN <<s>>
    ELSE LET i == CHOOSE k \in 1..Len(s) :
                      s[k] = sep /\ \A j \in 1..(k - 1) : s[j] # sep
         IN <<SubSeq(s, 1, i - 1)>> \o Split(SubSeq(s, i + 1, Len(s)), sep)

\* str.replace(r'[chars]', '', regex=True): every character of the class goes.
RemoveChars(s, chars) == SelectSeq(s, LAMBDA c : c \notin chars)

RECURSIVE LStrip(_)
LStrip(s) == IF s # <<>> /\ Head(s) = " " THEN LStrip(Tail(s)) ELSE s

RECURSIVE RStrip(_)
RStrip(s) ==
    IF s # <<>> /\ s[Len(s)] = " " THEN RStrip(SubSeq(s, 1, Len(s) - 1)) ELSE s

\* str.strip()
Strip(s) == RStrip(LStrip(s))

\* .str[-1] of a list
LastOf(list) == list[Len(list)]

(***************************************************************************)
(* parse_date: the date strings of the data files.                         *)
(***************************************************************************)
Digits == <<"0", "1", "2", "3", "4", "5", "6", "7", "8", "9">>

IsDigit(c) == \E i \in 1..Len(Digits) : Digits[i] = c
DigitVal(c) == (CHOOSE i \in 1..Len(Digits) : Digits[i] = c) - 1

AllDigits(s) == s # <<>> /\ \A i \in 1..Len(s) : IsDigit(s[i])

RECURSIVE ToInt(_)
\* int(s) of a string of digits
ToInt(s) ==
    IF s = <<>> THEN 0
    ELSE 10 * ToInt(SubSeq(s, 1, Len(s) - 1)) + DigitVal(s[Len(s)])

IsLeap(y) == y % 4 = 0 /\ (y % 100 # 0 \/ y % 400 = 0)

DaysInMonth(y, m) ==
    IF m = 2 THEN (IF IsLeap(y) THEN 29 ELSE 28)
    ELSE IF m \in {4, 6, 9, 11} THEN 30 ELSE 31

\* The first and last calendar day a nanosecond pd.Timestamp can hold
\* (pd.Timestamp.min is 1677-09-21 00:12:43, pd.Timestamp.max is
\* 2262-04-11 23:47:16).
TimestampMin == <<1677, 9, 22>>
TimestampMax == <<2262, 4, 11>>

\* a <= b for (year, month, day) triples
DayLessEq(a, b) ==
    \/ a[1] < b[1]
    \/ a[1] = b[1] /\ a[2] < b[2]
    \/ a[1] = b[1] /\ a[2] = b[2] /\ a[3] <= b[3]

InBounds(day) == DayLessEq(TimestampMin, day) /\ DayLessEq(day, TimestampMax)

\* The formats parse_date tries, in its order; a format is the list of its
\* directives, which '-' separates.
Formats == << <<"%Y", "%m", "%d">>, <<"%Y", "%m">>, <<"%Y">> >>

\* What each directive accepts: %Y four digits, %m and %d one or two.
MatchesDirective(piece, directive) ==
    /\ AllDigits(piece)
    /\ IF directive = "%Y" THEN Len(piece) = 4
       ELSE IF directive = "%m" THEN Len(piece) <= 2 /\ ToInt(piece) \in 1..12
       ELSE Len(piece) <= 2 /\ ToInt(piece) \in 1..31

ValueError == [tag |-> "ValueError", val |-> 0]

\* pd.to_datetime(s, format=fmt): the whole string has to match the format
\* and name a calendar day a Timestamp can hold, else ValueError (of which
\* OutOfBoundsDatetime is a subclass); fields the format lacks are 1.
ToDatetime(s, fmt) ==
    LET pieces == Split(s, "-")
    IN IF Len(pieces) # Len(fmt)
          \/ \E i \in 1..Len(fmt) : ~MatchesDirective(pieces[i], fmt[i])
       THEN ValueError
       ELSE LET y == ToInt(pieces[1])
                m == IF Len(fmt) >= 2 THEN ToInt(pieces[2]) ELSE 1
                d == IF Len(fmt) >= 3 THEN ToInt(pieces[3]) ELSE 1
            IN IF d > DaysInMonth(y, m) \/ ~InBounds(<<y, m, d>>)
               THEN ValueError
               ELSE Timestamp(y, m, d)

\* TryFormats without the except clause: the first format's error escapes.
TryFormatsUncaught(s, fmts) == ToDatetime(s, Head(fmts))

RECURSIVE TryFormats(_, _)
\* for fmt in formats: try: return ... except ValueError: continue; pd.NaT
\* after the last.
TryFormats(s, fmts) ==
    IF fmts = <<>> THEN NaT
    ELSE LET t == ToDatetime(s, Head(fmts))
         IN IF t = ValueError THEN TryFormats(s, Tail(fmts)) ELSE t

RECURSIVE FormatInt(_, _)
\* The decimal digits of n, zero-padded to width.
FormatInt(n, width) ==
    IF width = 0 /\ n = 0 THEN <<>>
    ELSE FormatInt(n \div 10, IF width = 0 THEN 0 ELSE width - 1)
             \o <<Digits[(n % 10) + 1]>>

\* str(x) of a string, of an int and of a float that is a whole number:
\* str(1999) is "1999", str(1999.0) is "1999.0".
Str(x) ==
    IF x.tag = "str" THEN x.val
    ELSE IF x.tag = "int" THEN FormatInt(x.val, 1)
    ELSE FormatInt(x.val, 1) \o <<".", "0">>

\* parse_date(date_str)
parse_date(date_str) ==
    IF IsNull(date_str) THEN NaT
    ELSE TryFormats(Strip(Str(date_str)), Formats)

\* The date strings of the data files: "1999-05-03", "1999-05", "1999".
DayString(y, m, d) ==
    FormatInt(y, 4) \o <<"-">> \o FormatInt(m, 2) \o <<"-">> \o FormatInt(d, 2)
MonthString(y, m) == FormatInt(y, 4) \o <<"-">> \o FormatInt(m, 2)
YearString(y) == FormatInt(y, 4)

(***************************************************************************)
(* pandas helpers on columns (sequences of cells).                         *)
(***************************************************************************)
RECURSIVE Flatten(_)
Flatten(lists) ==
    IF lists = <<>> THEN <<>> ELSE Head(lists) \o Flatten(Tail(lists))

\* Series.explode(): one row per element of each list; a missing cell stays
\* one missing row.
Explode(col) ==
    Flatten([i \in 1..Len(col) |->
                IF IsNull(col[i]) THEN <<NaN>>
                ELSE [j \in 1..Len(col[i].val) |-> PyStr(col[i].val[j])]])

\* Series.str.split(sep): a list of pieces per string cell; missing cells
\* stay missing.
StrSplit(col, sep) ==
    [i \in 1..Len(col) |->
        IF IsNull(col[i]) THEN NaN ELSE [tag |-> "list", val |-> Split(col[i].val, sep)]]

DropNull(col) == SelectSeq(col, LAMBDA x : ~IsNull(x))

Occurrences(col, x) == Cardinality({i \in 1..Len(col) : col[i] = x})

RECURSIVE Uniques(_)
\* The distinct values of a column in order of first appearance.
Uniques(col) ==
    IF col = <<>> THEN <<>>
    ELSE LET init == Uniques(SubSeq(col, 1, Len(col) - 1))
             x == col[Len(col)]
         IN IF \E i \in 1..Len(init) : init[i] = x THEN init
            ELSE Append(init, x)

\* InsertByCountDesc with the comparison turned round: an ascending order.
InsertByCountAsc(rows, r) ==
    LET k == Cardinality({i \in 1..Len(rows) : rows[i].count <= r.count})
    IN SubSeq(rows, 1, k) \o <<r>> \o SubSeq(rows, k + 1, Len(rows))

\* Inserts row r after every row whose count is at least r's: a stable
\* descending order.
InsertByCountDesc(rows, r) ==
    LET k == Cardinality({i \in 1..Len(rows) : rows[i].count >= r.count})
    IN SubSeq(rows, 1, k) \o <<r>> \o SubSeq(rows, k + 1, Len(rows))

RECURSIVE SortByCountDesc(_)
SortByCountDesc(rows) ==
    IF rows = <<>> THEN <<>>
    ELSE InsertByCountDesc(SortByCountDesc(SubSeq(rows, 1, Len(rows) - 1)),
                           rows[Len(rows)])

\* Series.value_counts(): missing cells dropped, one row per distinct value,
\* most frequent first.
ValueCounts(col) ==
    LET kept == DropNull(col)
        keys == Uniques(kept)
    IN SortByCountDesc([i \in 1..Len(keys) |->
                          [key |-> keys[i], count |-> Occurrences(kept, keys[i])]])

Min(a, b) == IF a <= b THEN a ELSE b

\* The last n rows instead of the first n.
TailRows(rows, n) == SubSeq(rows, Len(rows) - Min(n, Len(rows)) + 1, Len(rows))

\* DataFrame.head(n) for n >= 0
HeadRows(rows, n) == SubSeq(rows, 1, Min(n, Len(rows)))

(***************************************************************************)
(* The movie table.  movie_genres holds the raw category string            *)
(*   {"/m/1": "Drama", "/m/2": "Art Film"}                                 *)
(***************************************************************************)
Quote == "\""

GenreCatalog ==
    << [id |-> <<"/", "m", "/", "1">>, name |-> <<"D", "r", "a", "m", "a">>],
       [id |-> <<"/", "m", "/", "2">>,
        name |-> <<"A", "r", "t", " ", "F", "i", "l", "m">>],
       [id |-> <<"/", "m", "/", "3">>,
        name |-> <<"W", "a", "r", " ", "F", "i", "l", "m">>],
       [id |-> <<"/", "m", "/", "4">>, name |-> <<"W", "a", "r">>] >>

\* The genre lists a movie row may carry (indexes into GenreCatalog).
GenreLists == { <<>>, <<1>>, <<2>>, <<3>>, <<1, 2>>, <<2, 1>>, <<2, 3>>, <<3, 1>> }

EncodePair(g) == <<Quote>> \o g.id \o <<Quote, ":", " ", Quote>> \o g.name \o <<Quote>>

RECURSIVE EncodePairs(_)
EncodePairs(list) ==
    IF list = <<>> THEN <<>>
    ELSE IF Len(list) = 1 THEN EncodePair(GenreCatalog[list[1]])
    ELSE EncodePair(GenreCatalog[list[1]]) \o <<",", " ">> \o EncodePairs(Tail(list))

\* The category string of the data file for a list of genres.
EncodeGenres(list) == PyStr(<<"{">> \o EncodePairs(list) \o <<"}">>)

MovieRows ==
    { [movie_genres |-> c] : c \in {EncodeGenres(l) : l \in GenreLists} \cup {NaN} }

RECURSIVE SeqsUpTo(_, _)
\* All sequences over S of length at most n.
SeqsUpTo(S, n) ==
    IF n = 0 THEN {<<>>}
    ELSE LET shorter == SeqsUpTo(S, n - 1)
         IN shorter \cup {Append(t, x) : t \in {u \in shorter : Len(u) = n - 1}, x \in S}

Column(table, name) == [i \in 1..Len(table) |-> table[i][name]]

\* A file of the data directory.
File(name, rows) == [name |-> name, rows |-> rows]

\* The directory that holds the movie and the character file, each when it
\* has rows.
Files(movie, character) ==
    (IF movie = <<>> THEN <<>> ELSE <<File("movie.metadata.tsv", movie)>>)
        \o (IF character = <<>> THEN <<>>
            ELSE <<File("character.metadata.tsv", character)>>)

\* The rows of the file of a name in a listing, none when it has no such file.
FileRows(listing, name) ==
    IF \E i \in 1..Len(listing) : listing[i].name = name
    THEN listing[CHOOSE i \in 1..Len(listing) : listing[i].name = name].rows
    ELSE <<>>

\* read_csv on a column of date text: when every field that is not empty is
\* a whole number the column is numeric, int64 without and float64 with an
\* empty field; otherwise the fields stay strings.
InferColumn(col) ==
    IF \A i \in 1..Len(col) : IsNull(col[i]) \/ AllDigits(col[i].val)
    THEN IF \E i \in 1..Len(col) : IsNull(col[i])
         THEN [i \in 1..Len(col) |->
                  IF IsNull(col[i]) THEN NaN ELSE PyFloat(ToInt(col[i].val))]
         ELSE [i \in 1..Len(col) |-> PyInt(ToInt(col[i].val))]
    ELSE col

\* __init__: read_csv, then df['movie_release_date'].apply(parse_date)
LoadMovies(rows) ==
    LET dates == InferColumn(Column(rows, "movie_release_date"))
    IN [i \in 1..Len(rows) |->
           [rows[i] EXCEPT !.movie_release_date = parse_date(dates[i])]]

\* __init__: read_csv, then df['actor_date_of_birth'].apply(parse_date)
LoadCharacters(rows) ==
    LET dates == InferColumn(Column(rows, "actor_date_of_birth"))
    IN [i \in 1..Len(rows) |->
           [rows[i] EXCEPT !.actor_date_of_birth = parse_date(dates[i])]]

\* The three tables no call reads are empty frames, and the directory has
\* no file the loader does not know.
NoOtherTables ==
    /\ name_clusters = <<>>
    /\ plot_summaries = <<>>
    /\ tvtropes_clusters = <<>>
    /\ diagnostics = <<>>

\* The dataframe attributes before the loop over the directory.
EmptyFrames ==
    [characters |-> <<>>, movie_metadata |-> <<>>, name_clusters |-> <<>>,
     plot_summaries |-> <<>>, tvtropes_clusters |-> <<>>, diagnostics |-> <<>>]

\* One turn of the loop: the file of a known name becomes its table, the
\* date column normalised for two of them; any other name is printed.
LoadFile(frames, file) ==
    IF file.name = "character.metadata.tsv"
    THEN [frames EXCEPT !.characters = LoadCharacters(file.rows)]
    ELSE IF file.name = "movie.metadata.tsv"
    THEN [frames EXCEPT !.movie_metadata = LoadMovies(file.rows)]
    ELSE IF file.name = "name.clusters.txt"
    THEN [frames EXCEPT !.name_clusters = file.rows]
    ELSE IF file.name = "plot_summaries.txt"
    THEN [frames EXCEPT !.plot_summaries = file.rows]
    ELSE IF file.name = "tvtropes.clusters.txt"
    THEN [frames EXCEPT !.tvtropes_clusters = file.rows]
    ELSE [frames EXCEPT !.diagnostics = Append(@, file.name)]

RECURSIVE LoadFilesUntilUnknown(_, _)
\* LoadFiles leaving the loop at the first file it does not know.
LoadFilesUntilUnknown(frames, listing) ==
    IF listing = <<>> THEN frames
    ELSE IF LoadFile(frames, Head(listing)).diagnostics # frames.diagnostics
    THEN LoadFile(frames, Head(listing))
    ELSE LoadFilesUntilUnknown(LoadFile(frames, Head(listing)), Tail(listing))

RECURSIVE LoadFiles(_, _)
\* for file in os.listdir(dir_path)
LoadFiles(frames, listing) ==
    IF listing = <<>> THEN frames
    ELSE LoadFiles(LoadFile(frames, Head(listing)), Tail(listing))

(***************************************************************************)
(* Requests and responses.                                                 *)
(***************************************************************************)
NoRequest == [op |-> "none"]
NoResponse == [status |-> "none", rows |-> <<>>]

Raise(err) == [status |-> err, rows |-> <<>>]
Return(rows) == [status |-> "ok", rows |-> rows]

(***************************************************************************)
(* movie_type(n)                                                           *)
(***************************************************************************)
\* The values n is called with.
NValues ==
    {PyInt(v) : v \in (0 - 1)..MaxN} \cup {PyBool(0), PyBool(1)}
        \cup {PyFloat(2), PyStr("ten"), PyNone}

\* The last space-separated word of one comma-separated piece of a genre string.
GenreToken(piece) ==
    LastOf(Split(Strip(RemoveChars(piece, {Quote, "{", "}", ","})), " "))

\* The genres series of movie_type before counting.
GenreSeries(table) ==
    LET pieces == Explode(StrSplit(Column(table, "movie_genres"), ","))
    IN [i \in 1..Len(pieces) |->
           IF IsNull(pieces[i]) THEN NaN ELSE PyStr(GenreToken(pieces[i].val))]

GenreCounts(table) ==
    LET vc == ValueCounts(GenreSeries(table))
    IN [i \in 1..Len(vc) |-> [movie_type |-> vc[i].key.val, count |-> vc[i].count]]

\* MovieTypeResponses with the value check written n < 0: zero gets through.
MovieTypeResponsesZeroAccepted(table, n) ==
    IF ~IsInstanceInt(n) THEN {Raise("TypeError")}
    ELSE IF n.val < 0 THEN {Raise("ValueError")}
    ELSE IF n.tag = "bool"
         THEN {Raise("TypeError"), Return(HeadRows(GenreCounts(table), 1))}
    ELSE {Return(HeadRows(GenreCounts(table), n.val))}

\* The responses movie_type(n) can give on a movie table.
MovieTypeResponses(table, n) ==
    IF ~IsInstanceInt(n) THEN {Raise("TypeError")}
    ELSE IF n.val <= 0 THEN {Raise("ValueError")}
    ELSE IF n.tag = "bool"
         \* head(True): pandas rejects a bool as a positional slice bound in
         \* the versions that check it and slices [:1] in those that do not.
         THEN {Raise("TypeError"), Return(HeadRows(GenreCounts(table), 1))}
    ELSE {Return(HeadRows(GenreCounts(table), n.val))}

MovieType(n) ==
    /\ request = NoRequest
    /\ request' = [op |-> "movie_type", n |-> n]
    /\ response' \in MovieTypeResponses(movie_metadata, n)
    /\ UNCHANGED <<rest, movie_metadata, characters>>

\* The caller takes the result; the analyzer is ready for the next call.
Done ==
    /\ request # NoRequest
    /\ request' = NoRequest
    /\ response' = NoResponse
    /\ UNCHANGED <<rest, movie_metadata, characters>>

(***************************************************************************)
(* parse_date(date_str), called on the strings a date column can hold.     *)
(***************************************************************************)
Years == {1010, 1677, 1999, 2000, 2262}
Months == {1, 2, 9, 12, 13}
Days == {1, 22, 29, 30, 31}

Pad(s) == <<" ">> \o s \o <<" ">>

DateStrings ==
    LET days == {DayString(y, m, d) : y \in Years, m \in Months, d \in Days}
        months == {MonthString(y, m) : y \in Years, m \in Months}
        years == {YearString(y) : y \in Years}
        others == { <<>>, <<"n", "/", "a">>, <<"1", "9", "9">>,
                    <<"1", "9", "9", "9", "-">>,
                    <<"1", "9", "9", "9", "/", "0", "5", "/", "0", "3">>,
                    <<"1", "9", "9", "9", "-", "5", "-", "3">>,
                    <<"0", "5", "-", "0", "3", "-", "1", "9", "9", "9">>,
                    <<"1", "9", "9", "9", " ", "0", "5">> }
        plain == days \cup months \cup years \cup others
    IN plain \cup {Pad(s) : s \in months \cup years \cup others}

DateValues ==
    {PyStr(s) : s \in DateStrings}
        \cup {NaN, PyNone, PyInt(1999), PyFloat(1999), PyInt(1010)}

\* The call returns the cell parse_date computes; an exception that the
\* function does not catch reaches the caller.
ParseDateResponse(date_str) ==
    LET r == parse_date(date_str)
    IN IF r = ValueError THEN Raise("ValueError") ELSE Return(<<r>>)

ParseDate(date_str) ==
    /\ request = NoRequest
    /\ request' = [op |-> "parse_date", date_str |-> date_str]
    /\ response' = ParseDateResponse(date_str)
    /\ UNCHANGED <<rest, movie_metadata, characters>>

InitDates ==
    /\ files = Files(<<>>, <<>>)
    /\ movie_metadata = <<>>
    /\ characters = <<>>
    /\ NoOtherTables
    /\ request = NoRequest
    /\ response = NoResponse

NextDates ==
    \/ \E date_str \in DateValues : ParseDate(date_str)
    \/ Done

SpecDates == InitDates /\ [][NextDates]_vars

(***************************************************************************)
(* The analyzer with a loaded movie table, under movie_type calls.         *)
(***************************************************************************)
InitMovies ==
    /\ movie_metadata \in SeqsUpTo(MovieRows, MaxMovies) \ {<<>>}
    /\ characters = <<>>
    /\ files = Files(movie_metadata, characters)
    /\ NoOtherTables
    /\ request = NoRequest
    /\ response = NoResponse

NextMovies ==
    \/ \E n \in NValues : MovieType(n)
    \/ Done

SpecMovies == InitMovies /\ [][NextMovies]_vars

(***************************************************************************)
(* The character table: one row per character of a movie.                  *)
(***************************************************************************)
CharRow(m, g, h) ==
    [wikipedia_movie_id |-> m, actor_gender |-> g, actor_height |-> h]

\* Rows that differ in gender and height, for the height distribution.
HeightRows ==
    { CharRow(PyInt(1), PyStr("M"), PyFloat(180)),
      CharRow(PyInt(1), PyStr("M"), PyFloat(165)),
      CharRow(PyInt(2), PyStr("F"), PyFloat(165)),
      CharRow(PyInt(2), PyStr("F"), PyFloat(180)),
      CharRow(PyInt(1), NaN, PyFloat(180)),
      CharRow(PyInt(2), PyStr("M"), NaN),
      CharRow(PyInt(2), PyStr("F"), PyFloat(350)) }

\* Rows that differ in the movie they belong to, for the actor histogram.
CastRows ==
    { CharRow(m, PyStr("M"), PyFloat(180)) :
        m \in {PyInt(1), PyInt(2), PyInt(3), NaN} }

\* DataFrame.sort_values(by=...), ascending and stable: a row goes after the
\* rows with a smaller key and the earlier rows with the same key.
SortValues(rows, by) ==
    LET Rank(i) ==
            1 + Cardinality({j \in 1..Len(rows) :
                                \/ rows[j][by] < rows[i][by]
                                \/ rows[j][by] = rows[i][by] /\ j < i})
    IN [p \in 1..Len(rows) |-> rows[CHOOSE i \in 1..Len(rows) : Rank(i) = p]]

(***************************************************************************)
(* actor_count()                                                           *)
(***************************************************************************)
\* GroupSizes with groupby(..., dropna=False): the rows without a movie id
\* form a group of their own.
GroupSizesKeepNa(table) ==
    LET ids == Column(table, "wikipedia_movie_id")
        keys == SortValues(Uniques(ids), "val")
    IN [i \in 1..Len(keys) |-> PyInt(Occurrences(ids, keys[i]))]

\* groupby('wikipedia_movie_id').size(): rows without a movie id belong to no
\* group; one size per movie id, in ascending order of the id.
GroupSizes(table) ==
    LET ids == DropNull(Column(table, "wikipedia_movie_id"))
        keys == SortValues(Uniques(ids), "val")
    IN [i \in 1..Len(keys) |-> PyInt(Occurrences(ids, keys[i]))]

\* ActorHistogram without the final sort_values(by='number_of_actors').
ActorHistogramUnsorted(table) ==
    LET vc == ValueCounts(GroupSizes(table))
    IN [i \in 1..Len(vc) |->
           [number_of_actors |-> vc[i].key.val, movie_count |-> vc[i].count]]

ActorHistogram(table) ==
    LET vc == ValueCounts(GroupSizes(table))
        hist == [i \in 1..Len(vc) |->
                    [number_of_actors |-> vc[i].key.val, movie_count |-> vc[i].count]]
    IN SortValues(hist, "number_of_actors")

ActorCount ==
    /\ request = NoRequest
    /\ request' = [op |-> "actor_count"]
    /\ response' = Return(ActorHistogram(characters))
    /\ UNCHANGED <<rest, movie_metadata, characters>>

(***************************************************************************)
(* actor_distributions(gender, max_height, min_height)                     *)
(***************************************************************************)
\* The number a Python numeric stands for, in centimetres (True is 1 m).
Num(x) == IF x.tag = "bool" THEN 100 * x.val ELSE x.val

\* Comparisons of floats: any comparison with NaN is false.
Less(a, b) == a.tag # "nan" /\ b.tag # "nan" /\ Num(a) < Num(b)
LessEq(a, b) == a.tag # "nan" /\ b.tag # "nan" /\ Num(a) <= Num(b)

GenderValues == {PyStr("All"), PyStr("M"), PyStr("F"), PyInt(123)}

HeightValues ==
    {PyFloat(v) : v \in {0 - 50, 150, 180, 200, 301}}
        \cup {PyInt(0), PyInt(300), PyBool(1), PyStr("tall"), PyNone, NaN}

Zero == PyInt(0)
ThreeMetres == PyInt(300)

\* ValidateActorFilter without the upper limit of 3 m.
ValidateActorFilterNoUpperLimit(gender, max_height, min_height) ==
    IF ~IsInstanceStr(gender) THEN "TypeError"
    ELSE IF ~IsInstanceNumeric(max_height) \/ ~IsInstanceNumeric(min_height)
    THEN "TypeError"
    ELSE IF Less(max_height, min_height) THEN "ValueError"
    ELSE IF LessEq(max_height, Zero) \/ LessEq(min_height, Zero)
    THEN "ValueError"
    ELSE "ok"

\* ValidateActorFilter without the type check of gender.
ValidateActorFilterNoGenderCheck(gender, max_height, min_height) ==
    IF ~IsInstanceNumeric(max_height) \/ ~IsInstanceNumeric(min_height)
    THEN "TypeError"
    ELSE IF Less(max_height, min_height) THEN "ValueError"
    ELSE IF \/ LessEq(max_height, Zero) \/ LessEq(min_height, Zero)
            \/ Less(ThreeMetres, max_height) \/ Less(ThreeMetres, min_height)
    THEN "ValueError"
    ELSE "ok"

\* The error the checks at the head of actor_distributions raise, or "ok".
ValidateActorFilter(gender, max_height, min_height) ==
    IF ~IsInstanceStr(gender) THEN "TypeError"
    ELSE IF ~IsInstanceNumeric(max_height) \/ ~IsInstanceNumeric(min_height)
    THEN "TypeError"
    ELSE IF Less(max_height, min_height) THEN "ValueError"
    ELSE IF \/ LessEq(max_height, Zero) \/ LessEq(min_height, Zero)
            \/ Less(ThreeMetres, max_height) \/ Less(ThreeMetres, min_height)
    THEN "ValueError"
    ELSE "ok"

\* FilterGender that never filters.
FilterGenderNone(table, gender) == table

\* self.characters[self.characters['actor_gender'] == gender], or the whole
\* table for "All".
FilterGender(table, gender) ==
    IF gender # PyStr("All")
    THEN SelectSeq(table, LAMBDA r : r.actor_gender = gender)
    ELSE table

\* The rows with min_height <= actor_height <= max_height.
FilterHeight(table, max_height, min_height) ==
    SelectSeq(table, LAMBDA r : /\ LessEq(r.actor_height, max_height)
                                /\ LessEq(min_height, r.actor_height))

DropNaHeight(table) == SelectSeq(table, LAMBDA r : ~IsNull(r.actor_height))

\* HeightCounts without the final sort_values(by='height').
HeightCountsUnsorted(table, gender, max_height, min_height) ==
    LET filtered == DropNaHeight(FilterHeight(FilterGender(table, gender),
                                              max_height, min_height))
        vc == ValueCounts(Column(filtered, "actor_height"))
    IN [i \in 1..Len(vc) |-> [height |-> vc[i].key.val, count |-> vc[i].count]]

HeightCounts(table, gender, max_height, min_height) ==
    LET filtered == DropNaHeight(FilterHeight(FilterGender(table, gender),
                                              max_height, min_height))
        vc == ValueCounts(Column(filtered, "actor_height"))
        counts == [i \in 1..Len(vc) |-> [height |-> vc[i].key.val, count |-> vc[i].count]]
    IN SortValues(counts, "height")

ActorDistributionsResponse(table, gender, max_height, min_height) ==
    LET v == ValidateActorFilter(gender, max_height, min_height)
    IN IF v # "ok" THEN Raise(v)
       ELSE Return(HeightCounts(table, gender, max_height, min_height))

ActorDistributions(gender, max_height, min_height) ==
    /\ request = NoRequest
    /\ request' = [op |-> "actor_distributions", gender |-> gender,
                   max_height |-> max_height, min_height |-> min_height]
    /\ response' = ActorDistributionsResponse(characters, gender, max_height, min_height)
    /\ UNCHANGED <<rest, movie_metadata, characters>>

(***************************************************************************)
(* The analyzer with a loaded character table, under actor_distributions   *)
(* calls and under actor_count calls.                                      *)
(***************************************************************************)
InitHeights ==
    /\ characters \in SeqsUpTo(HeightRows, MaxChars) \ {<<>>}
    /\ movie_metadata = <<>>
    /\ files = Files(movie_metadata, characters)
    /\ NoOtherTables
    /\ request = NoRequest
    /\ response = NoResponse

NextHeights ==
    \/ \E g \in GenderValues, mx \in HeightValues, mn \in HeightValues :
           ActorDistributions(g, mx, mn)
    \/ Done

SpecHeights == InitHeights /\ [][NextHeights]_vars

InitCast ==
    /\ characters \in SeqsUpTo(CastRows, MaxChars) \ {<<>>}
    /\ movie_metadata = <<>>
    /\ files = Files(movie_metadata, characters)
    /\ NoOtherTables
    /\ request = NoRequest
    /\ response = NoResponse

NextCast ==
    \/ ActorCount
    \/ Done

SpecCast == InitCast /\ [][NextCast]_vars

(***************************************************************************)
(* releases(genre)                                                         *)
(***************************************************************************)
\* bool(x) of a Python value
Truthy(x) ==
    IF x.tag = "none" THEN FALSE
    ELSE IF x.tag \in {"int", "float", "bool"} THEN x.val # 0
    ELSE IF x.tag \in {"str", "list"} THEN x.val # <<>>
    ELSE TRUE

PyList(l) == [tag |-> "list", val |-> l]

RECURSIVE FindAll(_)
\* re.findall(r'\"([^\"]+)\"', s): from the left, the text between a quote and
\* the next quote, when there is any; the search goes on after the closing
\* quote of a match, and at the next quote when nothing is between the two.
FindAll(s) ==
    LET quotes == {i \in 1..Len(s) : s[i] = Quote}
    IN IF Cardinality(quotes) < 2 THEN <<>>
       ELSE LET i == CHOOSE k \in quotes : \A q \in quotes : k <= q
                j == CHOOSE k \in quotes \ {i} : \A q \in quotes \ {i} : k <= q
            IN IF j = i + 1
               THEN FindAll(SubSeq(s, j, Len(s)))
               ELSE <<SubSeq(s, i + 1, j - 1)>> \o FindAll(SubSeq(s, j + 1, Len(s)))

\* Series.str.extractall(r'\"([^\"]+)\"')[0].unique(): the values in quotes of
\* every string cell, which are the names and the Freebase ids.
ValidGenres(table) ==
    LET col == Column(table, "movie_genres")
    IN UNION { {FindAll(col[i].val)[j] : j \in 1..Len(FindAll(col[i].val))} :
                 i \in {k \in 1..Len(col) : ~IsNull(col[k])} }

\* Series.str.contains(pat) for a pattern without regex metacharacters: pat
\* occurs somewhere in the string.
StrContains(s, pat) ==
    \E i \in 0..(Len(s) - Len(pat)) : SubSeq(s, i + 1, i + Len(pat)) = pat

\* DtYear with the year of a missing date taken as 0.
DtYearOfNaTZero(cell) == IF cell.tag = "date" THEN PyInt(cell.val[1]) ELSE PyInt(0)

\* Series.dt.year: the year of a date, missing for a missing date.
DtYear(cell) == IF cell.tag = "date" THEN PyInt(cell.val[1]) ELSE NaN

\* ReleaseCounts without the genre filter.
ReleaseCountsUnfiltered(table, genre) ==
    LET releases == [i \in 1..Len(table) |->
                        [movie_release_year |-> DtYear(table[i].movie_release_date),
                         movie_genres |-> table[i].movie_genres]]
        known == SelectSeq(releases, LAMBDA r : ~IsNull(r.movie_release_year))
        vc == ValueCounts(Column(known, "movie_release_year"))
    IN SortValues([i \in 1..Len(vc) |->
                      [year |-> vc[i].key.val, count |-> vc[i].count]], "year")

\* The year column, the genre filter when a genre is given, dropna,
\* value_counts and sort_values(by='year').
ReleaseCounts(table, genre) ==
    LET releases == [i \in 1..Len(table) |->
                        [movie_release_year |-> DtYear(table[i].movie_release_date),
                         movie_genres |-> table[i].movie_genres]]
        filtered == IF Truthy(genre)
                    THEN SelectSeq(releases,
                             LAMBDA r : StrContains(r.movie_genres.val, genre.val))
                    ELSE releases
        known == SelectSeq(filtered, LAMBDA r : ~IsNull(r.movie_release_year))
        vc == ValueCounts(Column(known, "movie_release_year"))
    IN SortValues([i \in 1..Len(vc) |->
                      [year |-> vc[i].key.val, count |-> vc[i].count]], "year")

ReleasesResponse(table, genre) ==
    IF Truthy(genre) /\ ~IsInstanceStr(genre) THEN Raise("TypeError")
    ELSE IF Truthy(genre) /\ genre.val \notin ValidGenres(table)
    THEN Raise("ValueError")
    ELSE Return(ReleaseCounts(table, genre))

Releases(genre) ==
    /\ request = NoRequest
    /\ request' = [op |-> "releases", genre |-> genre]
    /\ response' = ReleasesResponse(movie_metadata, genre)
    /\ UNCHANGED <<rest, movie_metadata, characters>>

\* The rows of movie.metadata.tsv: a release date as the file has it, and a
\* category string.
MovieFileRow(date, genres) ==
    [movie_release_date |-> date, movie_genres |-> EncodeGenres(genres)]

ReleaseFileRows ==
    { MovieFileRow(PyStr(DayString(1999, 5, 3)), <<1>>),
      MovieFileRow(PyStr(YearString(1999)), <<3, 1>>),
      MovieFileRow(PyStr(MonthString(2001, 7)), <<4>>),
      MovieFileRow(PyStr(MonthString(1999, 12)), <<3>>),
      MovieFileRow(PyStr(DayString(1010, 12, 2)), <<2>>),
      MovieFileRow(NaN, <<1>>),
      MovieFileRow(PyStr(DayString(2001, 1, 1)), <<>>) }

GenreArguments ==
    { PyNone, PyInt(0), PyInt(5), PyBool(0), PyBool(1), PyList(<<>>),
      PyList(<<GenreCatalog[1].name>>),
      PyStr(<<>>), PyStr(<<"F", "i", "l", "m">>),
      PyStr(<<"H", "o", "r", "r", "o", "r">>) }
        \cup {PyStr(GenreCatalog[i].name) : i \in 1..Len(GenreCatalog)}
        \cup {PyStr(GenreCatalog[i].id) : i \in {1, 4}}

\* The analyzer after loading a movie file of at least one row.
InitReleases ==
    /\ files \in {Files(rows, <<>>) : rows \in SeqsUpTo(ReleaseFileRows, MaxMovies) \ {<<>>}}
    /\ movie_metadata = LoadMovies(FileRows(files, "movie.metadata.tsv"))
    /\ characters = <<>>
    /\ NoOtherTables
    /\ request = NoRequest
    /\ response = NoResponse

NextReleases ==
    \/ \E genre \in GenreArguments : Releases(genre)
    \/ Done

SpecReleases == InitReleases /\ [][NextReleases]_vars

(***************************************************************************)
(* ages(period)                                                            *)
(***************************************************************************)
BirthYearLimit == 2025

MonthNames ==
    << "January", "February", "March", "April", "May", "June", "July",
       "August", "September", "October", "November", "December" >>

\* Series.dt.month of a date
DtMonth(cell) == cell.val[2]

\* self.characters.dropna(subset=['actor_date_of_birth'])
ValidBirths(table) == SelectSeq(table, LAMBDA r : ~IsNull(r.actor_date_of_birth))

\* YearCounts keeping the years up to and including the limit.
YearCountsLimitIncluded(table) ==
    LET years == [i \in 1..Len(ValidBirths(table)) |->
                     DtYear(ValidBirths(table)[i].actor_date_of_birth)]
        kept == SelectSeq(years, LAMBDA y : y.val <= BirthYearLimit)
        vc == ValueCounts(kept)
    IN SortValues([i \in 1..Len(vc) |->
                      [period |-> vc[i].key.val, count |-> vc[i].count]], "period")

\* The 'Y' branch: birth years below 2025, value_counts, sort_values.
YearCounts(table) ==
    LET years == [i \in 1..Len(ValidBirths(table)) |->
                     DtYear(ValidBirths(table)[i].actor_date_of_birth)]
        kept == SelectSeq(years, LAMBDA y : y.val < BirthYearLimit)
        vc == ValueCounts(kept)
    IN SortValues([i \in 1..Len(vc) |->
                      [period |-> vc[i].key.val, count |-> vc[i].count]], "period")

\* MonthCounts without sort_values: the months in the order of value_counts.
MonthCountsUnsorted(table) ==
    LET months == [i \in 1..Len(ValidBirths(table)) |->
                      PyInt(DtMonth(ValidBirths(table)[i].actor_date_of_birth))]
        vc == ValueCounts(months)
    IN [i \in 1..Len(vc) |->
           [period |-> MonthNames[vc[i].key.val], count |-> vc[i].count]]

\* The other branch: birth months, value_counts, sort_values, and then the
\* name of each month.
MonthCounts(table) ==
    LET months == [i \in 1..Len(ValidBirths(table)) |->
                      PyInt(DtMonth(ValidBirths(table)[i].actor_date_of_birth))]
        vc == ValueCounts(months)
        sorted == SortValues([i \in 1..Len(vc) |->
                                 [period |-> vc[i].key.val, count |-> vc[i].count]],
                             "period")
    IN [i \in 1..Len(sorted) |->
           [sorted[i] EXCEPT !.period = MonthNames[sorted[i].period]]]

\* AgesResponse without the check of period.
AgesResponseUnvalidated(table, period) ==
    IF period = PyStr("Y") THEN Return(YearCounts(table))
    ELSE Return(MonthCounts(table))

AgesResponse(table, period) ==
    IF period \notin {PyStr("Y"), PyStr("M")} THEN Raise("ValueError")
    ELSE IF period = PyStr("Y") THEN Return(YearCounts(table))
    ELSE Return(MonthCounts(table))

\* CharactersAfterAges with dropna and the new column applied to
\* self.characters itself.
CharactersAfterAgesInPlace(table, period) ==
    IF period \notin {PyStr("Y"), PyStr("M")} THEN table
    ELSE [i \in 1..Len(ValidBirths(table)) |->
             [birth |-> DtYear(ValidBirths(table)[i].actor_date_of_birth)]
                 @@ ValidBirths(table)[i]]

\* CharactersAfterAges with the rows of unknown birth date dropped from
\* self.characters itself.
CharactersAfterAgesDropped(table, period) ==
    IF period \notin {PyStr("Y"), PyStr("M")} THEN table ELSE ValidBirths(table)

\* self.characters after ages: valid_births is the new frame dropna returns,
\* so the column assigned to it (birth_year, birth_month) is not a column of
\* self.characters, which keeps its rows.
CharactersAfterAges(table, period) == table

Ages(period) ==
    /\ request = NoRequest
    /\ request' = [op |-> "ages", period |-> period]
    /\ response' = AgesResponse(characters, period)
    /\ characters' = CharactersAfterAges(characters, period)
    /\ UNCHANGED <<rest, movie_metadata>>

\* The rows of character.metadata.tsv: a birth date as the file has it.
BirthFileRows ==
    { [actor_date_of_birth |-> date] :
        date \in { PyStr(DayString(1970, 3, 15)), PyStr(YearString(1970)),
                   PyStr(MonthString(1985, 3)), PyStr(DayString(2024, 12, 31)),
                   PyStr(DayString(2025, 1, 1)), PyStr(DayString(2050, 1, 1)),
                   PyStr(YearString(1010)), NaN } }

PeriodArguments ==
    { PyStr("Y"), PyStr("M"), PyStr("D"), PyStr("y"), PyStr("year"),
      PyStr("month"), PyNone, PyInt(1) }

\* The analyzer after loading a character file of at least one row.
InitAges ==
    /\ files \in {Files(<<>>, rows) : rows \in SeqsUpTo(BirthFileRows, MaxChars) \ {<<>>}}
    /\ movie_metadata = <<>>
    /\ characters = LoadCharacters(FileRows(files, "character.metadata.tsv"))
    /\ NoOtherTables
    /\ request = NoRequest
    /\ response = NoResponse

NextAges ==
    \/ \E period \in PeriodArguments : Ages(period)
    \/ Done

SpecAges == InitAges /\ [][NextAges]_vars

(***************************************************************************)
(* The analyzer loaded from a data directory, under all five calls.        *)
(***************************************************************************)
MaxRows == 2

\* The rows of character.metadata.tsv with the columns the calls read.
CharFileRow(m, g, h, b) ==
    [wikipedia_movie_id |-> m, actor_gender |-> g, actor_height |-> h,
     actor_date_of_birth |-> b]

EngineCharRows ==
    { CharFileRow(PyInt(1), PyStr("M"), PyFloat(180), PyStr(DayString(1970, 3, 15))),
      CharFileRow(PyInt(2), PyStr("F"), PyFloat(165), PyStr(YearString(1985))),
      CharFileRow(PyInt(1), PyStr("F"), NaN, NaN) }

EngineMovieRows ==
    { MovieFileRow(PyStr(YearString(1999)), <<3, 1>>),
      MovieFileRow(PyStr(MonthString(2001, 7)), <<4>>),
      MovieFileRow(NaN, <<>>) }

\* The other three files, and names the loader does not know.
NameClusters == <<[name |-> "Stuart Little", actor_id |-> "/m/0k3w9c0"]>>
PlotSummaries == <<[wikipedia_movie_id |-> PyInt(1), summary |-> "A plot."]>>
TvtropesClusters == <<[name |-> "absent_minded_professor", cluster |-> "{}"]>>

\* The orders in which os.listdir lists the directory.
Listings ==
    { <<"movie.metadata.tsv", "character.metadata.tsv">>,
      <<"README.txt", "character.metadata.tsv", "movie.metadata.tsv">>,
      <<"character.metadata.tsv", "name.clusters.txt", "README.txt",
        "plot_summaries.txt", "movie.metadata.tsv", "tvtropes.clusters.txt">>,
      <<"movie.metadata.tsv", ".DS_Store", "character.metadata.tsv",
        "README.txt">> }

\* The directory that lists the given names, with the given movie and
\* character rows.
Directory(names, movie, character) ==
    [i \in 1..Len(names) |->
        File(names[i],
             IF names[i] = "movie.metadata.tsv" THEN movie
             ELSE IF names[i] = "character.metadata.tsv" THEN character
             ELSE IF names[i] = "name.clusters.txt" THEN NameClusters
             ELSE IF names[i] = "plot_summaries.txt" THEN PlotSummaries
             ELSE IF names[i] = "tvtropes.clusters.txt" THEN TvtropesClusters
             ELSE <<>>)]

Directories ==
    { Directory(names, movie, character) :
        names \in Listings,
        movie \in SeqsUpTo(EngineMovieRows, MaxRows) \ {<<>>},
        character \in SeqsUpTo(EngineCharRows, MaxRows) \ {<<>>} }

\* The arguments of the calls.
EngineN == {PyInt(0), PyInt(1), PyInt(2), PyBool(0), PyFloat(0 - 1), PyStr("ten")}

EngineFilters ==
    { <<PyStr("All"), PyFloat(200), PyFloat(150)>>,
      <<PyStr("M"), PyFloat(200), PyFloat(150)>>,
      <<PyStr("All"), PyFloat(150), PyFloat(200)>>,
      <<PyInt(123), PyFloat(150), PyFloat(200)>>,
      <<PyStr("F"), PyStr("tall"), PyFloat(350)>>,
      <<PyStr("All"), PyFloat(0 - 50), PyNone>> }

EngineGenres ==
    { PyNone, PyInt(0), PyInt(5), PyStr(GenreCatalog[1].name),
      PyStr(GenreCatalog[1].id), PyStr(<<"H", "o", "r", "r", "o", "r">>) }

EnginePeriods == {PyStr("Y"), PyStr("M"), PyStr("D"), PyNone}

\* The analyzer after __init__ has loaded a directory.
InitEngine ==
    /\ files \in Directories
    /\ characters = LoadFiles(EmptyFrames, files).characters
    /\ movie_metadata = LoadFiles(EmptyFrames, files).movie_metadata
    /\ name_clusters = LoadFiles(EmptyFrames, files).name_clusters
    /\ plot_summaries = LoadFiles(EmptyFrames, files).plot_summaries
    /\ tvtropes_clusters = LoadFiles(EmptyFrames, files).tvtropes_clusters
    /\ diagnostics = LoadFiles(EmptyFrames, files).diagnostics
    /\ request = NoRequest
    /\ response = NoResponse

NextEngine ==
    \/ \E n \in EngineN : MovieType(n)
    \/ ActorCount
    \/ \E f \in EngineFilters : ActorDistributions(f[1], f[2], f[3])
    \/ \E genre \in EngineGenres : Releases(genre)
    \/ \E period \in EnginePeriods : Ages(period)
    \/ Done

SpecEngine == InitEngine /\ [][NextEngine]_vars

(***************************************************************************)
(* Properties of movie_type.                                               *)
(***************************************************************************)
IsMovieTypeCall == request.op = "movie_type"
MovieTypeOk == IsMovieTypeCall /\ response.status = "ok"
\* A valid n: a positive integer (not a bool).
ValidN == IsMovieTypeCall /\ request.n.tag = "int" /\ request.n.val > 0

\* The display names of the "id": "name" pairs of a category string: of the
\* pieces between quotes, every second one is a name.
PairNames(cell) ==
    IF IsNull(cell) THEN <<>>
    ELSE LET parts == Split(cell.val, Quote)
         IN [k \in 1..(Len(parts) \div 4) |-> parts[4 * k]]

\* The display names of all pairs of all movies, in table order.
AllPairNames(table) ==
    Flatten([i \in 1..Len(table) |-> PairNames(table[i].movie_genres)])

DisplayNames(table) ==
    {AllPairNames(table)[i] : i \in 1..Len(AllPairNames(table))}

PairCount(table, d) ==
    Cardinality({i \in 1..Len(AllPairNames(table)) : AllPairNames(table)[i] = d})

\* The genre words movie_type counts, and how often each occurs.
CountedGenres(table) ==
    {GenreSeries(table)[i].val :
        i \in {j \in 1..Len(GenreSeries(table)) : ~IsNull(GenreSeries(table)[j])}}

CountedOccurrences(table, g) == Occurrences(GenreSeries(table), PyStr(g))

ReturnedGenres == {response.rows[i].movie_type : i \in 1..Len(response.rows)}

\* C1: every movie_type call with an integer n <= 0 fails with ValueError and
\* returns no result table.
C1_NonPositiveNValueError ==
    (IsMovieTypeCall /\ request.n.tag = "int" /\ request.n.val <= 0)
        => (response.status = "ValueError" /\ response.rows = <<>>)

C1_Witness ==
    /\ IsMovieTypeCall
    /\ request.n = PyInt(0)
    /\ response.status = "ValueError"
    /\ Len(movie_metadata) > 0

\* C2: every movie_type call with an n that is not an integer (a string, a
\* real number, a boolean or null) fails with TypeError.
C2_NonIntegerNTypeError ==
    (IsMovieTypeCall /\ request.n.tag # "int") => response.status = "TypeError"

C4_LargeNAllGenres ==
    (ValidN /\ request.n.val >= Cardinality(DisplayNames(movie_metadata))) =>
        /\ response.status = "ok"
        /\ Len(response.rows) = Cardinality(DisplayNames(movie_metadata))
        /\ ReturnedGenres = DisplayNames(movie_metadata)

\* C5: for every genre display name d of the data, several-word names
\* included, movie_type reports for d the number of "id": "name" pairs of
\* all movies whose name is d (in a call whose n cuts nothing off).
C5_CountPerDisplayName ==
    (ValidN /\ MovieTypeOk /\ Len(response.rows) < request.n.val) =>
        \A d \in DisplayNames(movie_metadata) :
            \E i \in 1..Len(response.rows) :
                /\ response.rows[i].movie_type = d
                /\ response.rows[i].count = PairCount(movie_metadata, d)

(***************************************************************************)
(* Properties of actor_distributions.                                      *)
(***************************************************************************)
IsHeightCall == request.op = "actor_distributions"

\* A height argument that is a number one can compare (not NaN).
IsNumber(x) == x.tag \in {"int", "float", "bool"}
\* A height argument that is not numeric at all.
NonNumeric(x) == x.tag \in {"str", "none"}

\* A valid ActorFilter: a string gender and 0 < min_height <= max_height <= 3 m.
ValidFilter ==
    /\ IsHeightCall
    /\ request.gender.tag = "str"
    /\ IsNumber(request.max_height) /\ IsNumber(request.min_height)
    /\ 0 < Num(request.min_height)
    /\ Num(request.min_height) <= Num(request.max_height)
    /\ Num(request.max_height) <= 300

\* C6: with a string gender and two numbers as heights, validation fails
\* with ValueError whenever max_height < min_height and whenever max_height
\* or min_height is <= 0 or > 3 m, whatever the gender.
C6_HeightRangeValueError ==
    (/\ IsHeightCall
     /\ request.gender.tag = "str"
     /\ IsNumber(request.max_height) /\ IsNumber(request.min_height)
     /\ \/ Num(request.max_height) < Num(request.min_height)
        \/ Num(request.max_height) <= 0 \/ Num(request.max_height) > 300
        \/ Num(request.min_height) <= 0 \/ Num(request.min_height) > 300)
        => (response.status = "ValueError" /\ response.rows = <<>>)

\* An ordered pair of heights whose maximum is above 3 m.
C6_Witness ==
    /\ IsHeightCall
    /\ request.gender = PyStr("All")
    /\ request.max_height = PyFloat(301)
    /\ request.min_height = PyFloat(150)
    /\ response.status = "ValueError"
    /\ Len(characters) > 0

\* C7: validation fails with TypeError whenever gender is not a string and
\* whenever max_height or min_height is not numeric.
C7_FilterTypeError ==
    (/\ IsHeightCall
     /\ \/ request.gender.tag # "str"
        \/ NonNumeric(request.max_height)
        \/ NonNumeric(request.min_height))
        => response.status = "TypeError"

\* A non-string gender with an otherwise valid height range.
C7_Witness ==
    /\ IsHeightCall
    /\ request.gender = PyInt(123)
    /\ request.max_height = PyFloat(200)
    /\ request.min_height = PyFloat(150)
    /\ response.status = "TypeError"
    /\ Len(characters) > 0

\* The character rows with height h whose gender is exactly g.
RowsOfGenderAt(g, h) ==
    {i \in 1..Len(characters) :
        /\ characters[i].actor_height = PyFloat(h)
        /\ characters[i].actor_gender = g}

\* C8: every returned (height, count) row has min_height <= height <=
\* max_height, and with a gender other than "All" a bucket counts no row of
\* another or a missing gender: its count is at most the number of rows of
\* exactly that gender at that height.
C8_RowsWithinFilter ==
    ValidFilter =>
        /\ response.status = "ok"
        /\ \A i \in 1..Len(response.rows) :
               /\ Num(request.min_height) <= response.rows[i].height
               /\ response.rows[i].height <= Num(request.max_height)
               /\ request.gender # PyStr("All") =>
                      response.rows[i].count <=
                          Cardinality(RowsOfGenderAt(request.gender,
                                                     response.rows[i].height))

\* A gender-filtered call over a table that also holds, at a returned height,
\* a row of another gender and a row with no gender.
C8_Witness ==
    /\ ValidFilter
    /\ request.gender = PyStr("M")
    /\ Len(response.rows) > 0
    /\ \E i \in 1..Len(characters) :
           /\ characters[i].actor_gender = PyStr("F")
           /\ characters[i].actor_height = PyFloat(response.rows[1].height)
    /\ \E i \in 1..Len(characters) :
           /\ characters[i].actor_gender = NaN
           /\ characters[i].actor_height = PyFloat(response.rows[1].height)

\* The character rows a valid filter selects: they pass the gender filter,
\* have a height, and the height lies in [min_height, max_height].
Selected ==
    {i \in 1..Len(characters) :
        /\ request.gender = PyStr("All") \/ characters[i].actor_gender = request.gender
        /\ characters[i].actor_height.tag = "float"
        /\ Num(request.min_height) <= characters[i].actor_height.val
        /\ characters[i].actor_height.val <= Num(request.max_height)}

SelectedHeights == {characters[i].actor_height.val : i \in Selected}

\* C9: actor_distributions returns exactly one row per distinct height of the
\* selected character rows, with the number of selected rows of that height
\* as count, in strictly ascending order of height.
C9_HeightHistogram ==
    ValidFilter =>
        /\ response.status = "ok"
        /\ Len(response.rows) = Cardinality(SelectedHeights)
        /\ {response.rows[i].height : i \in 1..Len(response.rows)} = SelectedHeights
        /\ \A i \in 1..Len(response.rows) :
               response.rows[i].count =
                   Cardinality({j \in Selected :
                       characters[j].actor_height.val = response.rows[i].height})
        /\ \A i \in 1..(Len(response.rows) - 1) :
               response.rows[i].height < response.rows[i + 1].height

\* The example of the specification: two "M" rows at 1.80 m and one "F" row
\* at 1.65 m, gender "M", from 1.5 m to 2.0 m, give [(1.80, 2)].
C9_Witness ==
    /\ ValidFilter
    /\ characters = << CharRow(PyInt(1), PyStr("M"), PyFloat(180)),
                       CharRow(PyInt(1), PyStr("M"), PyFloat(180)),
                       CharRow(PyInt(2), PyStr("F"), PyFloat(165)) >>
    /\ request.gender = PyStr("M")
    /\ request.min_height = PyFloat(150)
    /\ request.max_height = PyFloat(200)
    /\ response.rows = <<[height |-> 180, count |-> 2]>>

(***************************************************************************)
(* Properties of actor_count.                                              *)
(***************************************************************************)
IsActorCountCall == request.op = "actor_count"

RECURSIVE SumOfProducts(_)
\* The sum of number_of_actors x movie_count over the rows of a histogram.
SumOfProducts(rows) ==
    IF rows = <<>> THEN 0
    ELSE Head(rows).number_of_actors * Head(rows).movie_count
             + SumOfProducts(Tail(rows))

RowsWithMovieId ==
    {i \in 1..Len(characters) : characters[i].wikipedia_movie_id.tag = "int"}

\* C10: the sum over the rows of the actor_count histogram of
\* number_of_actors x movie_count is the number of character rows that have
\* a movie id.
C10_HistogramTotal ==
    IsActorCountCall =>
        /\ response.status = "ok"
        /\ SumOfProducts(response.rows) = Cardinality(RowsWithMovieId)

\* A histogram of two buckets over a table in which a row has no movie id.
C10_Witness ==
    /\ IsActorCountCall
    /\ Cardinality(RowsWithMovieId) < Len(characters)
    /\ Cardinality(RowsWithMovieId) >= 2
    /\ Len(response.rows) >= 1

\* The movie ids of the character table, and the number of rows of each.
MovieIds ==
    {characters[i].wikipedia_movie_id.val : i \in RowsWithMovieId}

CastSize(m) ==
    Cardinality({i \in RowsWithMovieId : characters[i].wikipedia_movie_id.val = m})

CastSizes == {CastSize(m) : m \in MovieIds}

\* C11: actor_count returns exactly one row for each k that is the number of
\* character rows of some movie, with the number of distinct movie ids that
\* have exactly k rows as movie_count, in strictly ascending order of k.
C11_HistogramRows ==
    IsActorCountCall =>
        /\ response.status = "ok"
        /\ Len(response.rows) = Cardinality(CastSizes)
        /\ {response.rows[i].number_of_actors : i \in 1..Len(response.rows)} = CastSizes
        /\ \A i \in 1..Len(response.rows) :
               response.rows[i].movie_count =
                   Cardinality({m \in MovieIds :
                                   CastSize(m) = response.rows[i].number_of_actors})
        /\ \A i \in 1..(Len(response.rows) - 1) :
               response.rows[i].number_of_actors
                   < response.rows[i + 1].number_of_actors

\* A movie of two characters listed before a movie of one: the histogram has
\* the rows (1, 1) and (2, 1).
C11_Witness ==
    /\ IsActorCountCall
    /\ Len(characters) = 3
    /\ characters[1].wikipedia_movie_id = characters[2].wikipedia_movie_id
    /\ characters[1].wikipedia_movie_id.tag = "int"
    /\ characters[3].wikipedia_movie_id.tag = "int"
    /\ characters[3].wikipedia_movie_id # characters[1].wikipedia_movie_id
    /\ response.rows = << [number_of_actors |-> 1, movie_count |-> 1],
                          [number_of_actors |-> 2, movie_count |-> 1] >>

(***************************************************************************)
(* parse_date                                                              *)
(***************************************************************************)
IsParseDateCall == request.op = "parse_date"

\* The text of the call's argument without the surrounding blanks.
DateText == Strip(request.date_str.val)

IsCalendarDay(y, m, d) == m \in 1..12 /\ d \in 1..DaysInMonth(y, m)

\* C19: a "Y-M-D" string yields the date (Y, M, D), a "Y-M" string the date
\* (Y, M, 1) and a "Y" string the date (Y, 1, 1).
C19_PatternsToDates ==
    IsParseDateCall /\ request.date_str.tag = "str" =>
        \A y \in Years :
            /\ DateText = YearString(y) =>
                   response = Return(<<Timestamp(y, 1, 1)>>)
            /\ \A m \in 1..12 :
                   /\ DateText = MonthString(y, m) =>
                          response = Return(<<Timestamp(y, m, 1)>>)
                   /\ \A d \in 1..31 :
                          IsCalendarDay(y, m, d) /\ DateText = DayString(y, m, d) =>
                              response = Return(<<Timestamp(y, m, d)>>)

\* A string with every digit written as "9": "1999-05" has the shape
\* "9999-99".
Shape(s) == [i \in 1..Len(s) |-> IF IsDigit(s[i]) THEN "9" ELSE s[i]]

\* The shapes of a full date, a year-month and a year.
DateShapes ==
    LET y == <<"9", "9", "9", "9">>
        f == {<<"9">>, <<"9", "9">>}
    IN {y} \cup {y \o <<"-">> \o m : m \in f}
           \cup {y \o <<"-">> \o m \o <<"-">> \o d : m \in f, d \in f}

\* C20: for every string or null input parse_date returns a date or the
\* missing date and raises nothing; a null input and a string of none of
\* the three patterns give the missing date.
C20_ParseDateTotal ==
    IsParseDateCall =>
        /\ response.status = "ok"
        /\ Len(response.rows) = 1
        /\ response.rows[1].tag \in {"date", "nat"}
        /\ IsNull(request.date_str) => response.rows[1] = NaT
        /\ (request.date_str.tag = "str" /\ Shape(DateText) \notin DateShapes) =>
               response.rows[1] = NaT

\* "n/a" has been parsed to the missing date.
C20_Witness ==
    /\ IsParseDateCall
    /\ request.date_str = PyStr(<<"n", "/", "a">>)
    /\ response = Return(<<NaT>>)

(***************************************************************************)
(* Properties of releases.                                                 *)
(***************************************************************************)
IsReleasesCall == request.op = "releases"

\* The display names of the categories of the loaded movie table.
ReleaseDisplayNames == DisplayNames(movie_metadata)

\* The Freebase ids of the categories of the catalog.
FreebaseIds == {GenreCatalog[i].id : i \in 1..Len(GenreCatalog)}

\* C12: a genre that is provided and is not a string, 0 and the empty list
\* included, fails with TypeError.
C12_NonStringGenreTypeError ==
    IsReleasesCall /\ request.genre.tag \notin {"none", "str"} =>
        response.status = "TypeError"

\* C13: a genre string that is not the display name of a category of the
\* table fails with ValueError; so does a string that occurs only as a
\* Freebase id.
C13_UnknownGenreValueError ==
    IsReleasesCall /\ request.genre.tag = "str"
                   /\ request.genre.val \notin ReleaseDisplayNames =>
        response.status = "ValueError"

RECURSIVE SumOfCounts(_)
SumOfCounts(rows) ==
    IF rows = <<>> THEN 0 ELSE Head(rows).count + SumOfCounts(Tail(rows))

\* The movies of the loaded table with a known release date.
Dated == {i \in 1..Len(movie_metadata) : movie_metadata[i].movie_release_date # NaT}

\* C14: without a genre the counts of releases add up to the number of movies
\* whose normalized release date is not unknown.
C14_ReleasesTotal ==
    IsReleasesCall /\ request.genre = PyNone =>
        /\ response.status = "ok"
        /\ SumOfCounts(response.rows) = Cardinality(Dated)

\* Two dated movies and one without a date: the counts add up to 2.
C14_Witness ==
    /\ IsReleasesCall
    /\ request.genre = PyNone
    /\ Len(movie_metadata) = 3
    /\ Cardinality(Dated) = 2
    /\ \E i \in 1..3 :
           FileRows(files, "movie.metadata.tsv")[i].movie_release_date = NaN
    /\ response.status = "ok"
    /\ SumOfCounts(response.rows) = 2

\* The dated movies of year y whose category string contains the text g.
ReleasedIn(y, g) ==
    {i \in Dated :
        /\ movie_metadata[i].movie_release_date.val[1] = y
        /\ \E a \in 1..Len(movie_metadata[i].movie_genres.val) :
             \E b \in (a - 1)..Len(movie_metadata[i].movie_genres.val) :
                 SubSeq(movie_metadata[i].movie_genres.val, a, b) = g}

ReleaseYears == {movie_metadata[i].movie_release_date.val[1] : i \in Dated}

IsAgesCall == request.op = "ages"

\* C16: ages accepts exactly the two period modes; every other period fails
\* with ValueError, whatever the birth records are.
C16_PeriodValueError ==
    IsAgesCall =>
        IF request.period \in {PyStr("Y"), PyStr("M")}
        THEN response.status = "ok"
        ELSE response = Raise("ValueError")

\* "month" has been refused on a table that has a known birth date.
C16_Witness ==
    /\ IsAgesCall
    /\ request.period = PyStr("month")
    /\ \E i \in 1..Len(characters) : characters[i].actor_date_of_birth # NaT
    /\ response = Raise("ValueError")

MonthNameSet == {MonthNames[i] : i \in 1..Len(MonthNames)}

\* The character rows with a known birth date.
Born == {i \in 1..Len(characters) : characters[i].actor_date_of_birth.tag = "date"}

\* The rows of the character file.
BirthFile == FileRows(files, "character.metadata.tsv")

\* The rows of the character file whose birth date is a year and no more.
YearOnly ==
    {i \in 1..Len(BirthFile) :
        /\ BirthFile[i].actor_date_of_birth.tag = "str"
        /\ Shape(Strip(BirthFile[i].actor_date_of_birth.val))
               = <<"9", "9", "9", "9">>}

CountOfPeriod(p) ==
    SumOfCounts(SelectSeq(response.rows, LAMBDA r : r.period = p))

\* C17: in month mode every label is one of the twelve month names, rows
\* with an unknown birth date are in no bucket, and the rows whose birth
\* date in the file is year-only are counted in "January".
C17_MonthLabels ==
    IsAgesCall /\ request.period = PyStr("M") =>
        /\ response.status = "ok"
        /\ \A i \in 1..Len(response.rows) : response.rows[i].period \in MonthNameSet
        /\ SumOfCounts(response.rows) = Cardinality(Born)
        /\ CountOfPeriod("January")
               = Cardinality({i \in Born : characters[i].actor_date_of_birth.val[2] = 1}
                                 \cup YearOnly)

BirthYears ==
    {characters[i].actor_date_of_birth.val[1] : i \in Born} \cap (0..2024)

\* C18: in year mode there is one row per birth year below 2025 of the rows
\* with a known birth date, with the number of those rows as count, in
\* strictly ascending order; no year is 2025 or later.
C18_BirthYears ==
    IsAgesCall /\ request.period = PyStr("Y") =>
        /\ response.status = "ok"
        /\ Len(response.rows) = Cardinality(BirthYears)
        /\ \A y \in BirthYears :
               \E i \in 1..Len(response.rows) :
                   response.rows[i] =
                       [period |-> y,
                        count |-> Cardinality({j \in Born :
                                     characters[j].actor_date_of_birth.val[1] = y})]
        /\ \A i \in 1..Len(response.rows) : response.rows[i].period < 2025
        /\ \A i \in 1..(Len(response.rows) - 1) :
               response.rows[i].period < response.rows[i + 1].period

\* Births of 2025, 1985 and 1970 with one unknown among the file's rows:
\* the rows are 1970 and 1985.
C18_Witness ==
    /\ IsAgesCall
    /\ request.period = PyStr("Y")
    /\ Len(characters) = 3
    /\ characters[1].actor_date_of_birth = Timestamp(2025, 1, 1)
    /\ characters[2].actor_date_of_birth = Timestamp(1985, 3, 1)
    /\ characters[3].actor_date_of_birth = Timestamp(1970, 1, 1)
    /\ response = Return(<< [period |-> 1970, count |-> 1],
                            [period |-> 1985, count |-> 1] >>)

(***************************************************************************)
(* Further properties of movie_type.                                       *)
(***************************************************************************)
\* C28: every genre name movie_type returns is the non-empty display name
\* of a genre of a loaded movie; a movie with the genre set "{}" is in no
\* bucket.
C28_ReturnedDisplayNames ==
    MovieTypeOk =>
        /\ <<>> \notin ReturnedGenres
        /\ ReturnedGenres \subseteq DisplayNames(movie_metadata)

\* The responses of movie_type(n + 1) on the loaded table.
NextLargerResponses ==
    MovieTypeResponses(movie_metadata, PyInt(request.n.val + 1))

\* C30: for a valid n the result of movie_type(n) is the first n rows of the
\* result of movie_type(n + 1) on the same table.
C30_PrefixOfNextN ==
    ValidN =>
        /\ response.status = "ok"
        /\ \A r \in NextLargerResponses :
               /\ r.status = "ok"
               /\ Len(response.rows) = Min(request.n.val, Len(r.rows))
               /\ response.rows = SubSeq(r.rows, 1, Len(response.rows))

\* movie_type(1) on a table of which movie_type(2) returns two rows.
C30_Witness ==
    /\ ValidN
    /\ request.n.val = 1
    /\ Len(response.rows) = 1
    /\ \E r \in NextLargerResponses : Len(r.rows) = 2

(***************************************************************************)
(* Properties of the loaded analyzer.                                     *)
(***************************************************************************)
\* The five tables as __init__ leaves them for the directory.
Loaded == LoadFiles(EmptyFrames, files)

IsCall == request # NoRequest

\* C21: after any sequence of calls, successful or raising, each of the five
\* tables is what loading left: same rows, same columns, same values.
C21_TablesAsLoaded ==
    /\ characters = Loaded.characters
    /\ movie_metadata = Loaded.movie_metadata
    /\ name_clusters = Loaded.name_clusters
    /\ plot_summaries = Loaded.plot_summaries
    /\ tvtropes_clusters = Loaded.tvtropes_clusters

\* ages has returned counts over rows with a known birth date, next to a
\* row it left out.
C21_Witness ==
    /\ request = [op |-> "ages", period |-> PyStr("Y")]
    /\ response.status = "ok"
    /\ response.rows # <<>>
    /\ Len(ValidBirths(Loaded.characters)) < Len(Loaded.characters)
    /\ C21_TablesAsLoaded

KnownNames ==
    {"character.metadata.tsv", "movie.metadata.tsv", "name.clusters.txt",
     "plot_summaries.txt", "tvtropes.clusters.txt"}

\* The positions of the directory listing that hold a file of another name.
UnknownAt == {i \in 1..Len(files) : files[i].name \notin KnownNames}

FileNames == [i \in 1..Len(files) |-> files[i].name]

\* C23: a file of an unknown name is reported and skipped: every table is
\* what its own file gives, wherever the unknown files stand in the listing,
\* and each unknown name has been reported once, in listing order.
C23_UnknownFileSkipped ==
    /\ characters = LoadCharacters(FileRows(files, "character.metadata.tsv"))
    /\ movie_metadata = LoadMovies(FileRows(files, "movie.metadata.tsv"))
    /\ name_clusters = FileRows(files, "name.clusters.txt")
    /\ plot_summaries = FileRows(files, "plot_summaries.txt")
    /\ tvtropes_clusters = FileRows(files, "tvtropes.clusters.txt")
    /\ diagnostics = SelectSeq(FileNames, LAMBDA name : name \notin KnownNames)

\* An unknown file stands before each of the five known files, and all five
\* tables have rows.
C23_Witness ==
    /\ \E i \in UnknownAt : \E j \in (i + 1)..Len(files) :
           files[j].name = "movie.metadata.tsv"
    /\ \E i \in UnknownAt : \E j \in (i + 1)..Len(files) :
           files[j].name = "tvtropes.clusters.txt"
    /\ files[1].name = "character.metadata.tsv"
    /\ diagnostics # <<>>
    /\ movie_metadata # <<>>
    /\ characters # <<>>
    /\ tvtropes_clusters # <<>>
    /\ plot_summaries # <<>>

\* The rows of the movie file.
MovieFile == FileRows(files, "movie.metadata.tsv")

\* C24: after loading, each release date and each birth date is the Date
\* Normalizer's result for the date text of its row in the file, a date or
\* unknown; no raw string is left in either column.
C24_DatesNormalized ==
    /\ Len(movie_metadata) = Len(MovieFile)
    /\ Len(characters) = Len(BirthFile)
    /\ \A i \in 1..Len(movie_metadata) :
           /\ movie_metadata[i].movie_release_date
                  = parse_date(MovieFile[i].movie_release_date)
           /\ movie_metadata[i].movie_release_date.tag \in {"date", "nat"}
    /\ \A i \in 1..Len(characters) :
           /\ characters[i].actor_date_of_birth
                  = parse_date(BirthFile[i].actor_date_of_birth)
           /\ characters[i].actor_date_of_birth.tag \in {"date", "nat"}

(***************************************************************************)
(* Further properties of ages, releases and movie_type.                   *)
(***************************************************************************)
\* The month number of a month name.
MonthNumber(name) == CHOOSE k \in 1..Len(MonthNames) : MonthNames[k] = name

\* The month name of the birth date of a row with a known birth date.
BirthMonth(i) == MonthNames[DtMonth(characters[i].actor_date_of_birth)]

\* C26: in month mode there is exactly one row for each month that occurs
\* among the rows with a known birth date, its count is the number of those
\* rows, and the rows stand in the order of the month numbers.
C26_MonthRows ==
    IsAgesCall /\ request.period = PyStr("M") =>
        /\ response.status = "ok"
        /\ {response.rows[i].period : i \in 1..Len(response.rows)}
               = {BirthMonth(j) : j \in Born}
        /\ \A i \in 1..Len(response.rows) :
               response.rows[i].count
                   = Cardinality({j \in Born : BirthMonth(j) = response.rows[i].period})
        /\ \A i, j \in 1..Len(response.rows) :
               i < j => MonthNumber(response.rows[i].period)
                            < MonthNumber(response.rows[j].period)

\* Births in December, in March and, by a bare year, in January, in that
\* order of the file: the rows are January, March, December.
C26_Witness ==
    /\ IsAgesCall
    /\ request.period = PyStr("M")
    /\ Len(characters) = 3
    /\ characters[1].actor_date_of_birth = Timestamp(2024, 12, 31)
    /\ characters[2].actor_date_of_birth = Timestamp(1985, 3, 1)
    /\ characters[3].actor_date_of_birth = Timestamp(1970, 1, 1)
    /\ response.rows = << [period |-> "January", count |-> 1],
                          [period |-> "March", count |-> 1],
                          [period |-> "December", count |-> 1] >>

\* The movies with a known release date in year y that have a category of
\* display name g.
ReleasedWithName(y, g) ==
    {i \in Dated :
        /\ movie_metadata[i].movie_release_date.val[1] = y
        /\ \E k \in 1..Len(PairNames(movie_metadata[i].movie_genres)) :
               PairNames(movie_metadata[i].movie_genres)[k] = g}

\* C27: every movie that releases counts for a genre g has g as the display
\* name of one of its categories: the count of a year is not above the number
\* of such movies of that year. A movie is not counted for g occurring inside
\* a longer name or inside a Freebase id.
C27_CountedByDisplayName ==
    IsReleasesCall /\ request.genre.tag = "str" /\ Truthy(request.genre)
                   /\ response.status = "ok" =>
        \A i \in 1..Len(response.rows) :
            response.rows[i].count
                <= Cardinality(ReleasedWithName(response.rows[i].year, request.genre.val))

(***************************************************************************)
(* Type checks and value checks.                                           *)
(***************************************************************************)
\* A height that is a number out of the range (0, 3 m].
OutOfRange(x) == IsNumber(x) /\ (LessEq(x, Zero) \/ Less(ThreeMetres, x))

\* The request has an argument of the wrong type: an n that is not an
\* integer, a gender that is not a string, a height that is not a number.
TypeViolation ==
    \/ /\ request.op = "movie_type"
       /\ request.n.tag # "int"
    \/ /\ request.op = "actor_distributions"
       /\ \/ request.gender.tag # "str"
          \/ NonNumeric(request.max_height)
          \/ NonNumeric(request.min_height)

\* The request has an argument of a value that is not allowed: an n that is
\* not positive, a maximum below the minimum, a height out of range.
ValueViolation ==
    \/ /\ request.op = "movie_type"
       /\ request.n.tag \in {"int", "bool", "float"}
       /\ request.n.val <= 0
    \/ /\ request.op = "actor_distributions"
       /\ \/ /\ IsNumber(request.max_height)
             /\ IsNumber(request.min_height)
             /\ Less(request.max_height, request.min_height)
          \/ OutOfRange(request.max_height)
          \/ OutOfRange(request.min_height)

\* C29: a request with both a type violation and a value violation fails
\* with TypeError.
C29_TypeErrorFirst ==
    TypeViolation /\ ValueViolation => response.status = "TypeError"

(***************************************************************************)
(* Determinism.                                                            *)
(***************************************************************************)
\* The responses a call can give on loaded tables.
ResponsesOf(frames, req) ==
    CASE req.op = "movie_type" -> MovieTypeResponses(frames.movie_metadata, req.n)
      [] req.op = "actor_count" -> {Return(ActorHistogram(frames.characters))}
      [] req.op = "actor_distributions" ->
             {ActorDistributionsResponse(frames.characters, req.gender,
                                         req.max_height, req.min_height)}
      [] req.op = "releases" -> {ReleasesResponse(frames.movie_metadata, req.genre)}
      [] req.op = "ages" -> {AgesResponse(frames.characters, req.period)}

\* The directory listed in the opposite order.
Relisted == [i \in 1..Len(files) |-> files[Len(files) + 1 - i]]

====
